---- MODULE Spec2Model ----
(***************************************************************************)
(* Model of the health-agent repository: the plain chat agent              *)
(* (health_agent.py), the tool-calling agent (advanced_health_agent.py)    *)
(* and the web variant (health_webapp.py).                                 *)
(*                                                                         *)
(* Text is modelled as a sequence of one-character strings, so that the    *)
(* string operations of the code (lower, strip, startswith, split, join,   *)
(* sorted, substring test) are computed character by character.            *)
(***************************************************************************)
EXTENDS Integers, Sequences, FiniteSets, TLC

VARIABLES
    variant,               \* which of the three programs this behaviour runs
    conversation_history,  \* the message list of the running program
    symptoms_log,          \* the symptom log (plain agent, web variant)
    clock,                 \* wall clock (datetime.now()), in ticks
    pc,                    \* position inside chat(): idle / first / tools / second
    tool_calls,            \* response_message.tool_calls of the current turn
    idx,                   \* number of tool calls already consumed by the for loop
    turn,                  \* bookkeeping of the current / last turn (see NoTurn)
    turns,                 \* number of chat() calls / web requests so far
    calls,                 \* number of tool-call requests issued so far
    web,                   \* web variant: per client request position and locals
    session_file,          \* the file written by save_session
    fn_call,               \* pure-tool specification: the invocation drawn by Init
    fn_result              \* pure-tool specification: its result, once applied

vars == <<variant, conversation_history, symptoms_log, clock, pc, tool_calls,
          idx, turn, turns, calls, web, session_file, fn_call, fn_result>>

(***************************************************************************)
(* Bounds of the model.                                                    *)
(***************************************************************************)
\* chat() calls (web: /chat and /log_symptom requests) of one session
MaxTurns == 2
\* tool-call requests issued by the upstream service in one session
MaxCalls == 2
\* largest clock value, in clock ticks
MaxClock == 3
\* clock ticks per second: the clock is finer than the timestamps
TicksPerSecond == 2
\* length of the symptom list handed to search_symptoms
MaxSymptoms == 2

(***************************************************************************)
(* Text helpers: the str methods the code uses.                            *)
(***************************************************************************)
UpperCase == <<"A","B","C","D","E","F","G","H","I","J","K","L","M",
               "N","O","P","Q","R","S","T","U","V","W","X","Y","Z">>
LowerCase == <<"a","b","c","d","e","f","g","h","i","j","k","l","m",
               "n","o","p","q","r","s","t","u","v","w","x","y","z">>

Digits == <<"0","1","2","3","4","5","6","7","8","9">>

\* the characters of the model in code-point order
\* (space < comma < 0-9 < colon < A-Z < a-z)
CodePoints == <<" ", ",">> \o Digits \o <<":">> \o UpperCase \o LowerCase

\* rank of a character in code-point order (what sorted() compares)
Ord(c) == CHOOSE i \in 1..Len(CodePoints) : CodePoints[i] = c

LowerChar(c) ==
    IF \E i \in 1..Len(UpperCase) : UpperCase[i] = c
    THEN LowerCase[CHOOSE i \in 1..Len(UpperCase) : UpperCase[i] = c]
    ELSE c

\* str.lower()
Lower(s) == [i \in 1..Len(s) |-> LowerChar(s[i])]

\* str.strip(): drop leading and trailing whitespace
Strip(s) ==
    LET keep == {i \in 1..Len(s) : s[i] # " "}
    IN  IF keep = {} THEN <<>>
        ELSE LET a == CHOOSE i \in keep : \A j \in keep : i <= j
                 b == CHOOSE i \in keep : \A j \in keep : j <= i
             IN  SubSeq(s, a, b)

\* str.startswith(prefix)
StartsWith(s, prefix) ==
    /\ Len(prefix) <= Len(s)
    /\ SubSeq(s, 1, Len(prefix)) = prefix

\* Python's `sub in s` on strings
Contains(sub, s) ==
    \E i \in 0..(Len(s) - Len(sub)) : SubSeq(s, i + 1, i + Len(sub)) = sub

\* sep.join(list) for a one-character separator
RECURSIVE Join(_, _)
Join(sep, list) ==
    IF list = <<>> THEN <<>>
    ELSE IF Len(list) = 1 THEN list[1]
    ELSE list[1] \o <<sep>> \o Join(sep, Tail(list))

\* s.split(sep) for a one-character separator ("" splits to [""])
RECURSIVE Split(_, _)
Split(s, sep) ==
    IF \A i \in 1..Len(s) : s[i] # sep THEN <<s>>
    ELSE LET p == CHOOSE i \in 1..Len(s) :
                     s[i] = sep /\ \A j \in 1..(i - 1) : s[j] # sep
         IN  <<SubSeq(s, 1, p - 1)>> \o Split(SubSeq(s, p + 1, Len(s)), sep)

\* a < b in Python's string order
RECURSIVE StrLess(_, _)
StrLess(a, b) ==
    IF b = <<>> THEN FALSE
    ELSE IF a = <<>> THEN TRUE
    ELSE IF a[1] # b[1] THEN Ord(a[1]) < Ord(b[1])
    ELSE StrLess(Tail(a), Tail(b))

\* insertion of x into a sorted list, after the elements equal to it
RECURSIVE Insert(_, _)
Insert(x, list) ==
    IF list = <<>> THEN <<x>>
    ELSE IF StrLess(x, list[1]) THEN <<x>> \o list
    ELSE <<list[1]>> \o Insert(x, Tail(list))

\* sorted(list) on strings
RECURSIVE Sorted(_)
Sorted(list) ==
    IF list = <<>> THEN <<>>
    ELSE Insert(list[Len(list)], Sorted(SubSeq(list, 1, Len(list) - 1)))

Range(f) == {f[i] : i \in DOMAIN f}

IsPrefix(s, t) == Len(s) <= Len(t) /\ SubSeq(t, 1, Len(s)) = s

\* the whole second of a clock value: strftime("%S") drops the rest
Seconds(now) == now \div TicksPerSecond

(***************************************************************************)
(* Outcome of a Python call: a returned value or a raised exception.       *)
(***************************************************************************)
Raise == [raised |-> TRUE]
Return(v) == [raised |-> FALSE, value |-> v]

(***************************************************************************)
(* calculate_bmi, calculate_daily_water, set_medication_reminder.          *)
(* Numbers are integers; a value rounded to d decimals is kept as the      *)
(* integer value * 10^d.  The "message" field of each result repeats the   *)
(* other fields as display text and is left out.                           *)
(***************************************************************************)
\* round(n / d) for n >= 0, d > 0
RoundDiv(n, d) == (2 * n + d) \div (2 * d)

calculate_bmi(weight_kg, height_cm) ==
    IF height_cm = 0 THEN Raise          \* ZeroDivisionError at line 20
    ELSE LET h2 == height_cm * height_cm
             w == weight_kg * 10000      \* bmi = w / h2
             category ==
                 IF 2 * w < 37 * h2 THEN "Underweight"
                 ELSE IF w < 25 * h2 THEN "Normal weight"
                 ELSE IF w < 30 * h2 THEN "Overweight"
                 ELSE "Obese"
         IN  Return([bmi |-> RoundDiv(100 * w, h2), category |-> category])

\* multipliers, times ten
Multiplier(activity_level) ==
    CASE activity_level = "sedentary" -> 10
      [] activity_level = "moderate"  -> 12
      [] activity_level = "active"    -> 15
      [] OTHER                        -> 10

calculate_daily_water(weight_kg, activity_level) ==
    LET total_ml10 == weight_kg * 33 * Multiplier(activity_level)
    IN  Return([liters |-> RoundDiv(total_ml10, 100),
                cups   |-> RoundDiv(total_ml10, 240)])

IsDigit(c) == \E i \in 1..10 : Digits[i] = c
DigitValue(c) == (CHOOSE i \in 1..10 : Digits[i] = c) - 1

\* int(s) for an unsigned decimal literal; -1 stands for ValueError
RECURSIVE ParseInt(_)
ParseInt(s) ==
    IF s = <<>> \/ \E i \in 1..Len(s) : ~IsDigit(s[i]) THEN -1
    ELSE IF Len(s) = 1 THEN DigitValue(s[1])
    ELSE 10 * ParseInt(SubSeq(s, 1, Len(s) - 1)) + DigitValue(s[Len(s)])

\* "%02d"
TwoDigits(n) == <<Digits[(n \div 10) + 1], Digits[(n % 10) + 1]>>

\* strftime("%H:%M") of a time given in seconds since midnight of some day
ClockText(seconds) ==
    LET minutes == (seconds \div 60) % 1440
    IN  TwoDigits(minutes \div 60) \o <<":">> \o TwoDigits(minutes % 60)

\* now is the second of datetime.now(): replace(hour, minute) keeps its
\* seconds; timedelta(hours = 24 / n * i) is 86400 * i / n seconds
set_medication_reminder(medication_name, times_per_day, start_time, now) ==
    LET parts == Split(start_time, ":")
    IN  IF Len(parts) # 2 THEN Raise     \* unpacking at line 63
        ELSE LET hour == ParseInt(parts[1])
                 minute == ParseInt(parts[2])
             IN  IF hour < 0 \/ minute < 0 THEN Raise       \* int() fails
                 ELSE IF times_per_day = 0 THEN Raise       \* 24 / 0
                 ELSE IF times_per_day > 0 /\ (hour > 23 \/ minute > 59)
                      THEN Raise                            \* replace() fails
                 ELSE LET base == hour * 3600 + minute * 60 + (now % 60)
                          n == IF times_per_day > 0 THEN times_per_day ELSE 0
                      IN  Return([medication |-> medication_name,
                                  times |-> [i \in 1..n |->
                                      ClockText(base +
                                          (86400 * (i - 1)) \div times_per_day)]])

(***************************************************************************)
(* search_symptoms                                                         *)
(***************************************************************************)
\* the fixed table, in insertion order
symptom_db == <<
    [key |-> <<"f","e","v","e","r",",","h","e","a","d","a","c","h","e",",",
               "f","a","t","i","g","u","e">>,
     conditions |-> <<"Common Cold", "Flu", "COVID-19">>],
    [key |-> <<"c","o","u","g","h",",","f","e","v","e","r">>,
     conditions |-> <<"Respiratory Infection", "Bronchitis">>],
    [key |-> <<"h","e","a","d","a","c","h","e",",","n","a","u","s","e","a">>,
     conditions |-> <<"Migraine", "Tension Headache">>],
    [key |-> <<"f","e","v","e","r",","," ","b","o","d","y"," ","a","c","h","e">>,
     conditions |-> <<"Flu", "Viral Infection">>] >>

Fallback == "Unable to determine - Please consult a doctor"

\* the loop of lines 92-95: conditions of the first n table entries that match
RECURSIVE Collect(_, _)
Collect(parts, n) ==
    IF n = 0 THEN <<>>
    ELSE Collect(parts, n - 1) \o
         (IF \E i \in 1..Len(parts) : Contains(parts[i], symptom_db[n].key)
          THEN symptom_db[n].conditions ELSE <<>>)

\* list(set(...)) has no defined order: the result is modelled as the set
search_symptoms(symptoms_list) ==
    LET symptoms_key ==
            Join(",", Sorted([i \in 1..Len(symptoms_list) |->
                                 Strip(Lower(symptoms_list[i]))]))
        found == Collect(Split(symptoms_key, ","), Len(symptom_db))
        possible_conditions == IF found = <<>> THEN <<Fallback>> ELSE found
    IN  Return([symptoms |-> symptoms_list,
                possible_conditions |-> Range(possible_conditions)])

(***************************************************************************)
(* json.loads / json.dumps.  The arguments text of a tool call either      *)
(* parses to a mapping or does not parse (json.loads raises); a text that  *)
(* parses is represented by the mapping it parses to.  The text produced   *)
(* by json.dumps is represented by the value it encodes, tagged.           *)
(***************************************************************************)
Malformed == [malformed |-> TRUE]
JsonText(v) == [malformed |-> FALSE, value |-> v]

JsonLoads(text) == IF text.malformed THEN Raise ELSE Return(text.value)
JsonDumps(v) == <<"json", v>>

(***************************************************************************)
(* AdvancedHealthAgent.execute_function                                    *)
(***************************************************************************)
functions_map ==
    {"calculate_bmi", "calculate_daily_water",
     "set_medication_reminder", "search_symptoms"}

\* f(**arguments): TypeError unless the keywords fit the signature
Invoke(function_name, arguments, now) ==
    LET given == DOMAIN arguments
    IN  CASE function_name = "calculate_bmi" ->
               IF given = {"weight_kg", "height_cm"}
               THEN calculate_bmi(arguments.weight_kg, arguments.height_cm)
               ELSE Raise
          [] function_name = "calculate_daily_water" ->
               IF given = {"weight_kg"}
               THEN calculate_daily_water(arguments.weight_kg, "moderate")
               ELSE IF given = {"weight_kg", "activity_level"}
               THEN calculate_daily_water(arguments.weight_kg,
                                          arguments.activity_level)
               ELSE Raise
          [] function_name = "set_medication_reminder" ->
               IF given = {"medication_name", "times_per_day"}
               THEN set_medication_reminder(arguments.medication_name,
                        arguments.times_per_day, <<"0","9",":","0","0">>, now)
               ELSE IF given = {"medication_name", "times_per_day", "start_time"}
               THEN set_medication_reminder(arguments.medication_name,
                        arguments.times_per_day, arguments.start_time, now)
               ELSE Raise
          [] function_name = "search_symptoms" ->
               IF given = {"symptoms_list"}
               THEN search_symptoms(arguments.symptoms_list)
               ELSE Raise

\* variant of execute_function: the lookup without the membership test
execute_function_unguarded(function_name, arguments, now) ==
    IF function_name \in functions_map
    THEN Invoke(function_name, arguments, now)
    ELSE Raise

execute_function(function_name, arguments, now) ==
    IF function_name \in functions_map
    THEN Invoke(function_name, arguments, now)
    ELSE Return([error |-> <<"Function not found", function_name>>])

(***************************************************************************)
(* Messages                                                                *)
(***************************************************************************)
SystemMessage == [role |-> "system", content |-> <<"system_prompt">>]
UserMessage(text) == [role |-> "user", content |-> text]
AssistantMessage(text) == [role |-> "assistant", content |-> text]
\* the response object of the first request, appended as it is
ToolCallMessage(requests) ==
    [role |-> "assistant", content |-> <<"None">>, tool_calls |-> requests]
\* variant of ToolMessage: the legacy role name
ToolMessageLegacyRole(id, text) ==
    [role |-> "function", tool_call_id |-> id, content |-> text]

ToolMessage(id, text) ==
    [role |-> "tool", tool_call_id |-> id, content |-> text]

\* what chat() returns
Answer(text) == [kind |-> "answer", content |-> text]
ErrorString == [kind |-> "error", content |-> <<"Error: str(e)">>]
LocalReply(text) == [kind |-> "local", content |-> text]
NoReturn == [kind |-> "none"]

(***************************************************************************)
(* Bookkeeping of one turn: the history when chat() was entered, the       *)
(* message lists sent upstream, the ids of the tool calls handed to        *)
(* execute_function, the value returned.                                   *)
(***************************************************************************)
NoTurn ==
    [start |-> <<>>, log_start |-> <<>>, message |-> <<>>, sent |-> <<>>,
     invoked |-> <<>>, raised |-> FALSE, failed |-> 0, returned |-> NoReturn]

NewTurn(message) ==
    [NoTurn EXCEPT !.start = conversation_history,
                   !.log_start = symptoms_log,
                   !.message = message]

(***************************************************************************)
(* Inputs                                                                  *)
(***************************************************************************)
Hello == <<"h","i">>
Reply == <<"o","k">>
Fever == <<"f","e","v","e","r">>

\* the (name, arguments) pairs the upstream service may ask for
ToolRequests ==
    { [name |-> "calculate_bmi",
       arguments |-> JsonText([weight_kg |-> 70, height_cm |-> 175])],
      [name |-> "calculate_bmi",
       arguments |-> JsonText([weight_kg |-> 70, height_cm |-> 0])],
      [name |-> "calculate_bmi", arguments |-> Malformed],
      [name |-> "calculate_daily_water",
       arguments |-> JsonText([weight_kg |-> 65])],
      [name |-> "search_symptoms",
       arguments |-> JsonText([symptoms_list |-> <<Fever>>])],
      [name |-> "get_weather",
       arguments |-> JsonText([city |-> "Pune"])],
      [name |-> "get_weather", arguments |-> Malformed] }

\* the request lists of length 1..n
RECURSIVE RequestLists(_)
RequestLists(n) ==
    IF n = 0 THEN {}
    ELSE {<<r>> : r \in ToolRequests} \cup RequestLists(n - 1) \cup
         {Append(l, r) : l \in RequestLists(n - 1), r \in ToolRequests}

\* the upstream service issues the correlation ids
WithIds(list, first) ==
    [i \in 1..Len(list) |->
        [id |-> first + i, name |-> list[i].name,
         arguments |-> list[i].arguments]]

(***************************************************************************)
(* AdvancedHealthAgent                                                     *)
(***************************************************************************)
Advanced == variant = "advanced"

AdvUnchanged ==
    UNCHANGED <<variant, symptoms_log, clock, web, session_file, fn_call, fn_result>>

\* lines 244-256: append the user message, issue the first request
AdvChat(user_message) ==
    /\ Advanced /\ pc = "idle" /\ turns < MaxTurns
    /\ conversation_history' =
           Append(conversation_history, UserMessage(user_message))
    /\ turn' = [NewTurn(user_message) EXCEPT
                   !.sent = <<conversation_history'>>]
    /\ turns' = turns + 1
    /\ pc' = "first"
    /\ tool_calls' = <<>>
    /\ idx' = 0
    /\ UNCHANGED calls
    /\ AdvUnchanged

\* variant of AdvFirstRequestFails: the user message is taken back
AdvFirstRequestFailsRollback ==
    /\ Advanced /\ pc = "first"
    /\ turn' = [turn EXCEPT !.failed = 1, !.returned = ErrorString]
    /\ conversation_history' = turn.start
    /\ pc' = "idle"
    /\ UNCHANGED <<tool_calls, idx, turns, calls>>
    /\ AdvUnchanged

\* line 309, first request: the exception is caught, the error string returned
AdvFirstRequestFails ==
    /\ Advanced /\ pc = "first"
    /\ turn' = [turn EXCEPT !.failed = 1, !.returned = ErrorString]
    /\ pc' = "idle"
    /\ UNCHANGED <<conversation_history, tool_calls, idx, turns, calls>>
    /\ AdvUnchanged

\* variant of AdvDirectAnswer: the answer is returned but not recorded
AdvDirectAnswerUnrecorded(text) ==
    /\ Advanced /\ pc = "first"
    /\ turn' = [turn EXCEPT !.returned = Answer(text)]
    /\ pc' = "idle"
    /\ UNCHANGED <<conversation_history, tool_calls, idx, turns, calls>>
    /\ AdvUnchanged

\* lines 298-307: no tool calls
AdvDirectAnswer(text) ==
    /\ Advanced /\ pc = "first"
    /\ conversation_history' =
           Append(conversation_history, AssistantMessage(text))
    /\ turn' = [turn EXCEPT !.returned = Answer(text)]
    /\ pc' = "idle"
    /\ UNCHANGED <<tool_calls, idx, turns, calls>>
    /\ AdvUnchanged

\* lines 261-263: the response carries tool calls
AdvToolCalls(list) ==
    /\ Advanced /\ pc = "first"
    /\ Len(list) <= MaxCalls - calls
    /\ tool_calls' = WithIds(list, calls)
    /\ calls' = calls + Len(list)
    /\ conversation_history' =
           Append(conversation_history, ToolCallMessage(tool_calls'))
    /\ idx' = 0
    /\ pc' = "tools"
    /\ UNCHANGED <<turn, turns>>
    /\ AdvUnchanged

\* the outcome of lines 267-274 for the next tool call of the loop
ToolOutcome(tool_call, now) ==
    LET function_args == JsonLoads(tool_call.arguments)
    IN  IF function_args.raised THEN Raise
        ELSE execute_function(tool_call.name, function_args.value, now)

\* one iteration of the loop of lines 266-281; after the last one the
\* second request is issued (lines 284-287)
AdvExecuteTool ==
    /\ Advanced /\ pc = "tools" /\ idx < Len(tool_calls)
    /\ LET tool_call == tool_calls[idx + 1]
           function_result == ToolOutcome(tool_call, Seconds(clock))
       IN  /\ ~function_result.raised
           /\ conversation_history' =
                  Append(conversation_history,
                         ToolMessage(tool_call.id,
                                     JsonDumps(function_result.value)))
           /\ idx' = idx + 1
           /\ pc' = IF idx' = Len(tool_calls) THEN "second" ELSE "tools"
           /\ turn' = [turn EXCEPT
                  !.invoked = Append(@, tool_call.id),
                  !.sent = IF idx' = Len(tool_calls)
                           THEN Append(@, conversation_history') ELSE @]
    /\ UNCHANGED <<tool_calls, turns, calls>>
    /\ AdvUnchanged

\* json.loads or the tool raises: line 309 ends the turn
AdvToolRaises ==
    /\ Advanced /\ pc = "tools" /\ idx < Len(tool_calls)
    /\ LET tool_call == tool_calls[idx + 1]
       IN  /\ ToolOutcome(tool_call, Seconds(clock)).raised
           /\ turn' = [turn EXCEPT
                  !.invoked = IF JsonLoads(tool_call.arguments).raised
                              THEN @ ELSE Append(@, tool_call.id),
                  !.raised = TRUE,
                  !.returned = ErrorString]
    /\ pc' = "idle"
    /\ UNCHANGED <<conversation_history, tool_calls, idx, turns, calls>>
    /\ AdvUnchanged

\* lines 289-296
AdvFinalAnswer(text) ==
    /\ Advanced /\ pc = "second"
    /\ conversation_history' =
           Append(conversation_history, AssistantMessage(text))
    /\ turn' = [turn EXCEPT !.returned = Answer(text)]
    /\ pc' = "idle"
    /\ UNCHANGED <<tool_calls, idx, turns, calls>>
    /\ AdvUnchanged

\* variant of AdvSecondRequestFails: the request is sent once more
AdvSecondRequestRetried ==
    /\ Advanced /\ pc = "second"
    /\ turn' = [turn EXCEPT !.failed = 2, !.returned = ErrorString,
                            !.sent = Append(@, conversation_history)]
    /\ pc' = "idle"
    /\ UNCHANGED <<conversation_history, tool_calls, idx, turns, calls>>
    /\ AdvUnchanged

\* line 309, second request
AdvSecondRequestFails ==
    /\ Advanced /\ pc = "second"
    /\ turn' = [turn EXCEPT !.failed = 2, !.returned = ErrorString]
    /\ pc' = "idle"
    /\ UNCHANGED <<conversation_history, tool_calls, idx, turns, calls>>
    /\ AdvUnchanged

AdvNext ==
    \/ \E m \in {Hello} : AdvChat(m)
    \/ AdvFirstRequestFails
    \/ \E t \in {Reply} : AdvDirectAnswer(t)
    \/ \E l \in RequestLists(MaxCalls) : AdvToolCalls(l)
    \/ AdvExecuteTool
    \/ AdvToolRaises
    \/ \E t \in {Reply} : AdvFinalAnswer(t)
    \/ AdvSecondRequestFails

(***************************************************************************)
(* HealthAgent                                                             *)
(***************************************************************************)
Basic == variant = "basic"

LogPrefix == <<"l","o","g"," ","s","y","m","p","t","o","m",":">>
ShowCommands ==
    { <<"s","h","o","w"," ","s","y","m","p","t","o","m","s">>,
      <<"m","y"," ","s","y","m","p","t","o","m","s">>,
      <<"s","y","m","p","t","o","m"," ","l","o","g">> }

\* what the user may type
BasicInputs ==
    { <<"l","o","g"," ","s","y","m","p","t","o","m",":"," ","f","e","v","e","r">>,
      <<"L","o","g"," ","S","y","m","p","t","o","m",":"," "," ","F","e","v","e","r"," ">>,
      <<"l","o","g"," ","s","y","m","p","t","o","m",":">>,
      <<"s","h","o","w"," ","s","y","m","p","t","o","m","s">>,
      <<"M","y"," ","S","y","m","p","t","o","m","s">>,
      <<"s","y","m","p","t","o","m"," ","l","o","g">>,
      <<"l","o","g"," ","s","y","m","p","t","o","m"," ","f","e","v","e","r">>,
      Hello }

\* variant of IsLogCommand: the prefix test without lower()
IsLogCommandCaseSensitive(user_message) == StartsWith(user_message, LogPrefix)

IsLogCommand(user_message) == StartsWith(Lower(user_message), LogPrefix)
IsShowCommand(user_message) == Lower(user_message) \in ShowCommands

\* lines 55-59: the entry appended by log_symptom
symptom_entry(symptom, now) == [timestamp |-> Seconds(now), symptom |-> symptom]

\* variant of log_symptom: a symptom already in the log is not logged again
log_symptom_dedup(log, symptom, now) ==
    IF \E i \in 1..Len(log) : log[i].symptom = symptom THEN log
    ELSE Append(log, symptom_entry(symptom, now))

log_symptom(log, symptom, now) == Append(log, symptom_entry(symptom, now))

\* lines 62-70; the text lists the entries in order
get_symptoms_summary(log) ==
    IF log = <<>> THEN <<"No symptoms logged yet.">>
    ELSE <<"Your Symptom Log:">> \o log

BasicUnchanged ==
    UNCHANGED <<variant, tool_calls, idx, calls, web, fn_call, fn_result>>

\* HealthAgent.chat, up to the request (lines 72-98)
BasicChat(user_message) ==
    /\ Basic /\ pc = "idle" /\ turns < MaxTurns
    /\ turns' = turns + 1
    /\ IF IsLogCommand(user_message)
       THEN LET symptom == Strip(SubSeq(user_message, 13, Len(user_message)))
            IN  /\ symptoms_log' = log_symptom(symptoms_log, symptom, clock)
                /\ turn' = [NewTurn(user_message) EXCEPT
                               !.returned = LocalReply(<<"Logged symptom:", symptom>>)]
                /\ UNCHANGED <<conversation_history, pc>>
       ELSE IF IsShowCommand(user_message)
       THEN /\ turn' = [NewTurn(user_message) EXCEPT
                           !.returned =
                               LocalReply(get_symptoms_summary(symptoms_log))]
            /\ UNCHANGED <<conversation_history, symptoms_log, pc>>
       ELSE /\ conversation_history' =
                   Append(conversation_history, UserMessage(user_message))
            /\ turn' = [NewTurn(user_message) EXCEPT
                           !.sent = <<conversation_history'>>]
            /\ pc' = "first"
            /\ UNCHANGED symptoms_log
    /\ UNCHANGED <<clock, session_file>>
    /\ BasicUnchanged

\* lines 100-109
BasicAnswer(text) ==
    /\ Basic /\ pc = "first"
    /\ conversation_history' =
           Append(conversation_history, AssistantMessage(text))
    /\ turn' = [turn EXCEPT !.returned = Answer(text)]
    /\ pc' = "idle"
    /\ UNCHANGED <<symptoms_log, clock, turns, session_file>>
    /\ BasicUnchanged

\* lines 111-112
BasicRequestFails ==
    /\ Basic /\ pc = "first"
    /\ turn' = [turn EXCEPT !.failed = 1, !.returned = ErrorString]
    /\ pc' = "idle"
    /\ UNCHANGED <<conversation_history, symptoms_log, clock, turns,
                   session_file>>
    /\ BasicUnchanged

\* save_session writes the history and the log to a file and changes neither
BasicSaveSession ==
    /\ Basic /\ pc = "idle"
    /\ session_file' = [conversation |-> conversation_history,
                        symptoms |-> symptoms_log,
                        saved_at |-> Seconds(clock)]
    /\ UNCHANGED <<conversation_history, symptoms_log, clock, pc, turn, turns>>
    /\ BasicUnchanged

\* time passes (the tool requests of the tool-calling agent's model do not
\* read the clock, so its behaviours keep it fixed)
Tick ==
    /\ variant \in {"basic", "web"}
    /\ clock < MaxClock
    /\ clock' = clock + 1
    /\ UNCHANGED <<variant, conversation_history, symptoms_log, pc, tool_calls,
                   idx, turn, turns, calls, web, session_file, fn_call,
                   fn_result>>

BasicNext ==
    \/ \E m \in BasicInputs : BasicChat(m)
    \/ \E t \in {Reply} : BasicAnswer(t)
    \/ BasicRequestFails
    \/ BasicSaveSession

(***************************************************************************)
(* Web variant: module-level conversation_history and symptoms_log, one    *)
(* request handler running per client, handlers of different clients       *)
(* interleaving (the development server handles requests in threads).      *)
(* Every message and log entry carries the client it came from; the code   *)
(* keeps no such field, it is there to state what a client is shown.       *)
(***************************************************************************)
Web == variant = "web"

Clients == {"alice", "bob"}

WebMessage(role, text, client) ==
    [role |-> role, content |-> text, client |-> client]

WebSystemMessage == WebMessage("system", <<"system_prompt">>, "none")

\* request: the route and body of the client's latest request, and its number
WebIdle ==
    [pc |-> "idle", sent |-> <<>>, got |-> <<>>, status |-> 0,
     request |-> [route |-> "none", body |-> <<>>, n |-> 0]]

WebRequest(route, body) == [route |-> route, body |-> body, n |-> turns + 1]

WebUnchanged ==
    UNCHANGED <<variant, pc, tool_calls, idx, turn, calls, session_file,
                fn_call, fn_result>>

\* /chat, lines 35-44: 400 on an empty message, else append the user message
WebChat(c, user_message) ==
    /\ Web /\ web[c].pc = "idle" /\ turns < MaxTurns
    /\ turns' = turns + 1
    /\ IF user_message = <<>>
       THEN /\ web' = [web EXCEPT ![c].status = 400,
                                  ![c].request = WebRequest("/chat", user_message)]
            /\ UNCHANGED conversation_history
       ELSE /\ conversation_history' =
                   Append(conversation_history,
                          WebMessage("user", user_message, c))
            /\ web' = [web EXCEPT ![c].pc = "appended", ![c].status = 0,
                                  ![c].request = WebRequest("/chat", user_message)]
    /\ UNCHANGED <<symptoms_log, clock>>
    /\ WebUnchanged

\* /chat, lines 48-53: the request carries the list as it is now
WebChatSend(c) ==
    /\ Web /\ web[c].pc = "appended"
    /\ web' = [web EXCEPT ![c].pc = "awaiting",
                          ![c].sent = conversation_history]
    /\ UNCHANGED <<conversation_history, symptoms_log, clock, turns>>
    /\ WebUnchanged

\* /chat, lines 55-62
WebChatAnswer(c, text) ==
    /\ Web /\ web[c].pc = "awaiting"
    /\ conversation_history' =
           Append(conversation_history, WebMessage("assistant", text, c))
    /\ web' = [web EXCEPT ![c].pc = "idle", ![c].status = 200]
    /\ UNCHANGED <<symptoms_log, clock, turns>>
    /\ WebUnchanged

\* /chat, lines 64-65
WebChatFails(c) ==
    /\ Web /\ web[c].pc = "awaiting"
    /\ web' = [web EXCEPT ![c].pc = "idle", ![c].status = 500]
    /\ UNCHANGED <<conversation_history, symptoms_log, clock, turns>>
    /\ WebUnchanged

\* /log_symptom, lines 69-81
WebLogSymptom(c, symptom) ==
    /\ Web /\ web[c].pc = "idle" /\ turns < MaxTurns
    /\ turns' = turns + 1
    /\ IF symptom # <<>>
       THEN /\ symptoms_log' =
                   Append(symptoms_log,
                          [timestamp |-> Seconds(clock), symptom |-> symptom,
                           client |-> c])
            /\ web' = [web EXCEPT ![c].status = 200,
                   ![c].request = WebRequest("/log_symptom", symptom)]
       ELSE /\ web' = [web EXCEPT ![c].status = 400,
                   ![c].request = WebRequest("/log_symptom", symptom)]
            /\ UNCHANGED symptoms_log
    /\ UNCHANGED <<conversation_history, clock>>
    /\ WebUnchanged

\* /get_symptoms, lines 85-87
WebGetSymptoms(c) ==
    /\ Web /\ web[c].pc = "idle"
    /\ web' = [web EXCEPT ![c].got = symptoms_log, ![c].status = 200]
    /\ UNCHANGED <<conversation_history, symptoms_log, clock, turns>>
    /\ WebUnchanged

WebNext ==
    \/ \E c \in Clients, m \in {Hello, <<>>} : WebChat(c, m)
    \/ \E c \in Clients : WebChatSend(c)
    \/ \E c \in Clients, t \in {Reply} : WebChatAnswer(c, t)
    \/ \E c \in Clients : WebChatFails(c)
    \/ \E c \in Clients, s \in {Fever, <<>>} : WebLogSymptom(c, s)
    \/ \E c \in Clients : WebGetSymptoms(c)

NotApplied == [applied |-> FALSE]
NoFile == [saved_at |-> -1]

(***************************************************************************)
(* The three programs                                                      *)
(***************************************************************************)
Init ==
    /\ variant \in {"basic", "advanced", "web"}
    /\ conversation_history =
           IF variant = "web" THEN <<WebSystemMessage>> ELSE <<SystemMessage>>
    /\ symptoms_log = <<>>
    /\ clock = 0
    /\ pc = "idle"
    /\ tool_calls = <<>>
    /\ idx = 0
    /\ turn = NoTurn
    /\ turns = 0
    /\ calls = 0
    /\ web = [c \in Clients |-> WebIdle]
    /\ session_file = NoFile
    /\ fn_call = [name |-> "none"]
    /\ fn_result = NotApplied

Next == AdvNext \/ BasicNext \/ WebNext \/ Tick

Spec == Init /\ [][Next]_vars

(***************************************************************************)
(* The tool functions on their own: Init draws an invocation, Apply        *)
(* computes its result.                                                    *)
(***************************************************************************)
SymptomTexts ==
    { Fever,
      <<"H","e","a","d","a","c","h","e"," ">>,
      <<"c","o","u","g","h">>,
      <<"a","c","h","e">>,
      <<"r","a","s","h">>,
      <<"n","a","u","s","e","a",",","c","o","u","g","h">>,
      <<>> }

\* the lists of at most n symptom texts
RECURSIVE SymptomLists(_)
SymptomLists(n) ==
    IF n = 0 THEN {<<>>}
    ELSE SymptomLists(n - 1) \cup
         {Append(l, t) : l \in SymptomLists(n - 1), t \in SymptomTexts}

\* start_time texts: valid HH:MM, and two that int() / replace() reject
StartTimes ==
    { <<"0","9",":","0","0">>,
      <<"2","3",":","3","0">>,
      <<"0","0",":","0","0">>,
      <<"2","5",":","0","0">>,
      <<"9","a","m">> }

\* times_per_day values the model may pass
TimesPerDay == {0, 1, 2, 3, 7}

ToolInvocations ==
    {[name |-> "search_symptoms", arguments |-> [symptoms_list |-> l]] :
        l \in SymptomLists(MaxSymptoms)}
    \cup
    {[name |-> "set_medication_reminder",
      arguments |-> [medication_name |-> "Aspirin", times_per_day |-> n,
                     start_time |-> t]] :
        n \in TimesPerDay, t \in StartTimes}
    \cup
    {[name |-> "set_medication_reminder",
      arguments |-> [medication_name |-> "Aspirin", times_per_day |-> n]] :
        n \in TimesPerDay}

\* the second of the minute at which the tool may be called
CallSeconds == {0, 30, 59}

InitTools ==
    /\ variant = "tools"
    /\ conversation_history = <<>>
    /\ symptoms_log = <<>>
    /\ clock \in {sec * TicksPerSecond : sec \in CallSeconds}
    /\ pc = "idle"
    /\ tool_calls = <<>>
    /\ idx = 0
    /\ turn = NoTurn
    /\ turns = 0
    /\ calls = 0
    /\ web = [c \in Clients |-> WebIdle]
    /\ session_file = NoFile
    /\ fn_call \in ToolInvocations
    /\ fn_result = NotApplied

Apply ==
    /\ variant = "tools" /\ pc = "idle"
    /\ fn_result' = execute_function(fn_call.name, fn_call.arguments,
                                     Seconds(clock))
    /\ pc' = "done"
    /\ UNCHANGED <<variant, conversation_history, symptoms_log, clock,
                   tool_calls, idx, turn, turns, calls, web, session_file,
                   fn_call>>

NextTools == Apply

SpecTools == InitTools /\ [][NextTools]_vars

(***************************************************************************)
(* Properties                                                              *)
(***************************************************************************)
\* chat() has returned
TurnOver == pc = "idle" /\ turn.returned.kind # "none"

\* the messages appended since chat() was entered
Added ==
    SubSeq(conversation_history, Len(turn.start) + 1, Len(conversation_history))

Ids(list) == [i \in 1..Len(list) |-> list[i].id]

\* the tool-role message that answers request i of the current turn
AnswerTo(i) ==
    ToolMessage(tool_calls[i].id,
                JsonDumps(ToolOutcome(tool_calls[i], Seconds(clock)).value))

\* C1: a turn of the tool-calling agent whose first response carries k >= 1
\* tool calls, whose two requests succeed and whose tools all return, makes
\* exactly two upstream requests, hands each of the k requests to
\* execute_function exactly once, in order, and appends after the user
\* message exactly k + 2 messages: the assistant tool-call message, k
\* tool-role messages, the final assistant message.
C1_ToolTurn ==
    (Advanced /\ TurnOver /\ Len(tool_calls) >= 1
              /\ turn.failed = 0 /\ ~turn.raised) =>
        LET k == Len(tool_calls)
        IN  /\ Len(turn.sent) = 2
            /\ turn.invoked = Ids(tool_calls)
            /\ Len(Added) = 1 + (k + 2)
            /\ Added[1] = UserMessage(turn.message)
            /\ SubSeq(conversation_history, 1, Len(turn.start)) = turn.start
            /\ Added[2] = ToolCallMessage(tool_calls)
            /\ \A i \in 1..k : Added[2 + i].role = "tool"
            /\ turn.returned.kind = "answer"
            /\ Added[k + 3] = AssistantMessage(turn.returned.content)

C1_Witness ==
    /\ Advanced /\ TurnOver /\ Len(tool_calls) = 2
    /\ turn.failed = 0 /\ ~turn.raised
    /\ Len(conversation_history) = Len(turn.start) + 5

\* C2: a turn of the tool-calling agent whose first response succeeds and
\* carries no tool call makes exactly one upstream request, invokes no tool
\* and appends after the user message exactly one assistant message, whose
\* content is the value returned.
C2_DirectTurn ==
    (Advanced /\ TurnOver /\ tool_calls = <<>> /\ turn.failed = 0) =>
        /\ Len(turn.sent) = 1
        /\ turn.invoked = <<>>
        /\ turn.returned.kind = "answer"
        /\ conversation_history =
               turn.start \o <<UserMessage(turn.message),
                               AssistantMessage(turn.returned.content)>>

C2_Witness ==
    /\ Advanced /\ TurnOver /\ tool_calls = <<>> /\ turn.failed = 0
    /\ Len(turn.start) > 1
    /\ turn.returned = Answer(Reply)

\* C3: when a turn of the tool-calling agent with k >= 1 tool calls is over,
\* the i-th message after the assistant tool-call message is the tool-role
\* message of the i-th request (its id, the serialized result of its tool on
\* its arguments), for every i in 1..k: no request is skipped.
C3_EveryRequestAnswered ==
    (Advanced /\ TurnOver /\ Len(tool_calls) >= 1) =>
        \A i \in 1..Len(tool_calls) :
            /\ Len(Added) >= 2 + i
            /\ Added[2 + i] = AnswerTo(i)

\* C4: a failed upstream request ends the turn: the error string is
\* returned, no further request is made, and the history is the history
\* before the turn plus what was appended before the failure (the user
\* message; at the second request also the assistant tool-call message and
\* every tool-role message), with no assistant answer.
C4_FailureAborts ==
    /\ (variant \in {"advanced", "basic"} /\ turn.failed = 1) =>
           /\ pc = "idle"
           /\ turn.returned = ErrorString
           /\ Len(turn.sent) = 1
           /\ conversation_history =
                  turn.start \o <<UserMessage(turn.message)>>
    /\ (Advanced /\ turn.failed = 2) =>
           /\ pc = "idle"
           /\ turn.returned = ErrorString
           /\ Len(turn.sent) = 2
           /\ conversation_history =
                  turn.start \o <<UserMessage(turn.message),
                                  ToolCallMessage(tool_calls)>>
                             \o [i \in 1..Len(tool_calls) |-> AnswerTo(i)]

C4_Witness ==
    /\ Advanced /\ turn.failed = 2 /\ Len(tool_calls) = 2
    /\ Len(turn.start) > 1

\* a request that names no registered tool and whose arguments parse
UnknownTool(i) ==
    /\ tool_calls[i].name \notin functions_map
    /\ ~tool_calls[i].arguments.malformed

Agent == variant \in {"basic", "advanced"}

SystemFirst ==
    /\ Len(conversation_history) >= 1
    /\ conversation_history[1] = SystemMessage
    /\ \A i \in 2..Len(conversation_history) :
           conversation_history[i].role # "system"

\* C6: in both agents the first message of the history is always the system
\* message, no other message is a system message, and every step leaves
\* the history it found as a prefix of the history it leaves.
C6_SystemFirstAppendOnly ==
    /\ [](Agent => SystemFirst)
    /\ [][Agent => IsPrefix(conversation_history, conversation_history')]_vars

C6_Witness ==
    /\ Advanced /\ TurnOver /\ turn.failed = 1
    /\ Len(turn.start) > 1
    /\ Len(conversation_history) = Len(turn.start) + 1

\* C7: in the web variant the message list sent upstream for a client holds,
\* besides the system message, only messages posted by or answered to that
\* client, and /get_symptoms shows a client only its own symptoms.
C7_SessionsIsolated ==
    Web =>
        \A c \in Clients :
            /\ \A i \in 1..Len(web[c].sent) :
                   web[c].sent[i].client \in {c, "none"}
            /\ \A i \in 1..Len(web[c].got) : web[c].got[i].client = c

\* the two kinds of local command, as the user types them
TypedLog(m) == Len(m) >= Len(LogPrefix) /\ Lower(SubSeq(m, 1, Len(LogPrefix))) = LogPrefix
TypedShow(m) == \E s \in ShowCommands : Len(m) = Len(s) /\ Lower(m) = s

\* C8: in the plain agent an input that starts with "log symptom:" or equals
\* a show-symptoms synonym (in any letter case) is handled locally: no
\* upstream request, the history unchanged; the log command appends exactly
\* one entry to the symptom log, the show command leaves the log unchanged.
C8_LocalCommands ==
    (Basic /\ (TypedLog(turn.message) \/ TypedShow(turn.message))) =>
        /\ pc = "idle"
        /\ turn.sent = <<>>
        /\ conversation_history = turn.start
        /\ TypedLog(turn.message) =>
               /\ Len(symptoms_log) = Len(turn.log_start) + 1
               /\ IsPrefix(turn.log_start, symptoms_log)
        /\ TypedShow(turn.message) => symptoms_log = turn.log_start

C8_Witness ==
    /\ Basic
    /\ turn.message = <<"L","o","g"," ","S","y","m","p","t","o","m",":"," "," ","F","e","v","e","r"," ">>
    /\ Len(turn.start) > 1
    /\ Len(symptoms_log) = 1

\* C9 as claimed: two entries of the symptom log with the same symptom text
\* have different timestamps.
C9_DistinctTimestamps ==
    \A i, j \in 1..Len(symptoms_log) :
        (i # j /\ symptoms_log[i].symptom = symptoms_log[j].symptom) =>
            symptoms_log[i].timestamp # symptoms_log[j].timestamp

\* the step is a log_symptom call of the plain agent / a /log_symptom
\* request of client c
BasicLogCall ==
    Basic /\ turns' = turns + 1 /\ TypedLog(turn'.message)
WebLogCall(c) ==
    /\ Web /\ turns' = turns + 1
    /\ web'[c].request.n = turns'
    /\ web'[c].request.route = "/log_symptom"

\* C9, amended: the symptom log is append-only with no deduplication: no
\* step removes or alters an entry; every log_symptom call (web: every call
\* with a non-empty text) appends exactly one entry, whatever the log holds;
\* the entry's timestamp is the whole second of the clock, so two calls in
\* the same second give entries with equal timestamps.
C9_AppendOnlyLog ==
    [][ /\ IsPrefix(symptoms_log, symptoms_log')
        /\ Len(symptoms_log') <= Len(symptoms_log) + 1
        /\ BasicLogCall =>
               symptoms_log' =
                   Append(symptoms_log,
                          [timestamp |-> Seconds(clock),
                           symptom |-> Strip(SubSeq(turn'.message, 13,
                                                    Len(turn'.message)))])
        /\ \A c \in Clients :
               (WebLogCall(c) /\ web'[c].request.body # <<>>) =>
                   symptoms_log' =
                       Append(symptoms_log,
                              [timestamp |-> Seconds(clock),
                               symptom |-> web'[c].request.body,
                               client |-> c])
      ]_vars

C9_Witness ==
    /\ Basic /\ Len(symptoms_log) = 2 /\ clock > 0
    /\ symptoms_log[1] = symptoms_log[2]

\* the conditions the claim expects: the union over the table keys that
\* contain a normalized input symptom, or the fallback when there is none
ExpectedConditions(symptoms_list) ==
    LET hit == {n \in 1..Len(symptom_db) :
                   \E i \in 1..Len(symptoms_list) :
                       Contains(Strip(Lower(symptoms_list[i])),
                                symptom_db[n].key)}
    IN  IF hit = {} THEN {Fallback}
        ELSE UNION {Range(symptom_db[n].conditions) : n \in hit}

\* C10: for every list of symptom strings search_symptoms returns as
\* possible_conditions the duplicate-free union of the condition lists of
\* the table keys that contain a normalized input symptom as a substring,
\* and the single fallback entry when no input symptom matches a key.
C10_UnionOfMatchingKeys ==
    (variant = "tools" /\ pc = "done"
        /\ fn_call.name = "search_symptoms") =>
        /\ ~fn_result.raised
        /\ fn_result.value.possible_conditions =
               ExpectedConditions(fn_call.arguments.symptoms_list)

\* a start_time of the form HH:MM with HH <= 23 and MM <= 59
ValidStartTime(t) ==
    /\ Len(t) = 5 /\ t[3] = ":"
    /\ \A i \in {1, 2, 4, 5} : IsDigit(t[i])
    /\ 10 * DigitValue(t[1]) + DigitValue(t[2]) <= 23
    /\ 10 * DigitValue(t[4]) + DigitValue(t[5]) <= 59

\* the schedule the claim expects: entry i (from 0) is start_time plus
\* i * 24 / n hours, modulo 24 hours, cut to the whole minute
ExpectedTimes(n, t) ==
    LET start == 60 * (10 * DigitValue(t[1]) + DigitValue(t[2]))
                 + 10 * DigitValue(t[4]) + DigitValue(t[5])
    IN  [i \in 1..n |->
            LET m == (start + (1440 * (i - 1)) \div n) % 1440
            IN  TwoDigits(m \div 60) \o <<":">> \o TwoDigits(m % 60)]

\* the start_time of a reminder invocation (09:00 when it gives none)
StartTimeOf(arguments) ==
    IF "start_time" \in DOMAIN arguments THEN arguments.start_time
    ELSE <<"0","9",":","0","0">>

\* C11: for every times_per_day n >= 1 and every valid HH:MM start_time
\* set_medication_reminder returns exactly n clock times, the i-th
\* (i = 0..n-1) being start_time plus i * 24 / n hours modulo 24 hours cut to
\* the whole minute, whatever the wall-clock time of the call.
C11_EvenlySpacedFromStart ==
    (variant = "tools" /\ pc = "done"
        /\ fn_call.name = "set_medication_reminder"
        /\ fn_call.arguments.times_per_day >= 1
        /\ ValidStartTime(StartTimeOf(fn_call.arguments))) =>
        /\ ~fn_result.raised
        /\ fn_result.value.times =
               ExpectedTimes(fn_call.arguments.times_per_day,
                             StartTimeOf(fn_call.arguments))

\* an assistant message that carries tool-call requests
IsToolCallMessage(m) == m.role = "assistant" /\ "tool_calls" \in DOMAIN m

\* in the message list h every assistant tool-call message is directly
\* followed by one tool-role message per request id, in order, and every
\* tool-role message follows the assistant message that carries its id
Answered(h) ==
    /\ \A p \in 1..Len(h) :
           IsToolCallMessage(h[p]) =>
               \A i \in 1..Len(h[p].tool_calls) :
                   /\ p + i <= Len(h)
                   /\ h[p + i].role = "tool"
                   /\ h[p + i].tool_call_id = h[p].tool_calls[i].id
    /\ \A q \in 1..Len(h) :
           h[q].role = "tool" =>
               \E p \in 1..(q - 1) :
                   /\ IsToolCallMessage(h[p])
                   /\ q - p <= Len(h[p].tool_calls)
                   /\ h[p].tool_calls[q - p].id = h[q].tool_call_id

\* C12: every message list the tool-calling agent sends upstream, after any
\* turns (also turns ended by a failed request or by a raising tool call),
\* has each assistant tool-call message directly followed by one tool-role
\* message for each of its request ids, and each tool-role message preceded
\* by the assistant message that carries its id.
C12_SentHistoryAnswered ==
    Advanced => \A r \in 1..Len(turn.sent) : Answered(turn.sent[r])

====
